---- MODULE Spec2Model ----
(***************************************************************************)
(* Model of iframeplaylistgenerator/generator.py: update_for_iframes,      *)
(* create_iframe_playlist, create_iframe_segments and the two row          *)
(* handlers _process_video_frame and _process_video_details.               *)
(*                                                                         *)
(* Times (displayed_at, start_time, duration) are Python floats in the     *)
(* source; here they are integers counting one fixed time unit, so the     *)
(* arithmetic is exact.  Python's None is the empty sequence and a set     *)
(* value v is <<v>>; a byterange "len@off" is <<len, off>>.                *)
(***************************************************************************)
EXTENDS Integers, Sequences, FiniteSets, TLC

\* ---- bounds of the model ----
MaxTime == 1        \* displayed_at and duration range over 0..MaxTime
MaxPos == 2         \* pkt_pos ranges over 0..MaxPos
MaxSize == 1        \* pkt_size ranges over 1..MaxSize
MaxRows == 3        \* CSV rows of one transport-stream segment (SpecSynth)
MaxRecords == 4     \* CSV rows read during one call of update_for_iframes (Spec)
MaxPlaylists == 2   \* renditions of the master playlist
MaxSegments == 2    \* transport-stream segments of one rendition
MaxBytes == 9       \* total_bytes of a rendition (SpecBandwidth)
MaxDuration == 7    \* total_duration of a rendition (SpecBandwidth)
FarPos == 4         \* the larger of the two pkt_pos values of SpecBytes
MaxByteRows == 4    \* CSV rows of one transport-stream segment (SpecBytes)
MaxPieces == 4      \* pieces a codecs string is put together from (SpecCodecs)

VARIABLES
    pc,                 \* position of update_for_iframes
    err,                \* the exception that ended the call, or "none"
    err_arg,            \* the row type a ValueError names, else None
    n_playlists,        \* len(master_playlist.playlists)
    playlist,           \* index of the rendition being processed
    master_iframes,     \* master_playlist.iframe_playlists
    result_iframes,     \* result['iframe_playlists']
    master_content,     \* result['master_content']
    n_segments,         \* len(stream.segments) of the current rendition
    segment,            \* index of the transport-stream segment being processed
    iframe_playlist,    \* segments of the I-frame playlist being built
    total_bytes,        \* create_iframe_playlist: total_bytes
    total_duration,     \* create_iframe_playlist: total_duration
    ffprobe_status,     \* exit status of the last ffprobe run
    probe_rows,         \* number of CSV rows the last probe printed
    rows_left,          \* rows of the CSV reader not yet consumed
    iframe_segments,    \* create_iframe_segments: iframe_segments
    prev_iframe,        \* create_iframe_segments: prev_iframe
    iframes_total_size, \* create_iframe_segments: iframes_total_size
    video_duration,     \* create_iframe_segments: video_duration
    last_row,           \* history: the row consumed last in this segment, or None
    n_format,           \* history: "format" rows consumed in this segment
    seen_iframe,        \* history: an 'I' frame row was consumed in this segment
    n_records,          \* history: rows consumed during the whole call
    totals,             \* history: (total_bytes, total_duration) per finished rendition
    frame_order,        \* history: pkt_pos of the last frame row of this segment, and
                        \* whether pkt_pos has never decreased from frame row to frame row
    stale,              \* history: the I-frame references the master carried when loaded
    codecs,             \* convert_codecs_for_iframes: codecs
    iframe_codecs,      \* the value convert_codecs_for_iframes returned
    refiltered_codecs   \* history: convert_codecs_for_iframes(iframe_codecs)

vars == <<pc, err, err_arg, n_playlists, playlist, master_iframes, result_iframes,
          master_content, n_segments, segment, iframe_playlist, total_bytes,
          total_duration, ffprobe_status, probe_rows, rows_left, iframe_segments,
          prev_iframe, iframes_total_size, video_duration, last_row, n_format,
          seen_iframe, n_records, totals, frame_order, stale, codecs, iframe_codecs,
          refiltered_codecs>>

orchestrator_vars == <<n_playlists, playlist, master_iframes, result_iframes,
                       master_content, totals>>
rendition_vars == <<n_segments, segment, iframe_playlist, total_bytes, total_duration>>
fold_vars == <<iframe_segments, prev_iframe, iframes_total_size, video_duration,
               last_row, n_format, seen_iframe, frame_order>>
codec_vars == <<codecs, iframe_codecs, refiltered_codecs>>
probe_vars == <<ffprobe_status, probe_rows, rows_left>>

\* ---- Python values ----
None == <<>>
Some(v) == <<v>>
\* Python truth value of an optional number: None and 0 are both false.
Truthy(o) == o /= None /\ o[1] /= 0

\* math.ceil(n / d) for d > 0
CeilDiv(n, d) == -((-n) \div d)

\* ---- the rows ffprobe | grep | grep can print ----
\* A row is the CSV line split in columns: row[0] is decider, row[1..4] are
\* a, b, c, t.  Of a frame that is not an I-frame the code uses pkt_pos only,
\* so its other columns are fixed.
InvalidTypes == {"packet", "stream"}
Frame(displayed_at, position, size, type) ==
    [decider |-> "frame", a |-> displayed_at, b |-> position, c |-> size, t |-> type]
Format(start_time, duration) ==
    [decider |-> "format", a |-> start_time, b |-> duration, c |-> 0, t |-> ""]
Invalid(decider) ==
    [decider |-> decider, a |-> 0, b |-> 0, c |-> 0, t |-> ""]
FrameRows ==
    {Frame(d, p, s, "I") : d \in 0..MaxTime, p \in 0..MaxPos, s \in 1..MaxSize}
    \cup {Frame(MaxTime, p, 1, "P") : p \in 0..MaxPos}
FormatRows == {Format(st, du) : st \in 0..1, du \in 0..MaxTime}
InvalidRows == {Invalid(x) : x \in InvalidTypes}
\* The rows drawn when a whole master playlist is processed.
SampleFrameRows == {Frame(1, 1, 1, "I"), Frame(2, 4, 2, "I"), Frame(2, 3, 1, "P")}
SampleFormatRows == {Format(0, 0), Format(1, 3)}
SampleInvalidRows == {Invalid("packet")}
\* ffprobe exits with 0, or with 1 after an error.
ExitStatuses == {0, 1}

\* history of the pkt_pos column of the frame rows
NoFrameYet == [ordered |-> TRUE, last |-> None]
NextFrameOrder(order, row) ==
    IF row.decider = "frame"
    THEN [ordered |-> order.ordered /\ (order.last = None \/ order.last[1] <= row.b),
          last |-> Some(row.b)]
    ELSE order

\* a prev_iframe that holds an I-frame before any row was read
PendingPrevIframe == [displayed_at |-> Some(1), position |-> Some(1), size |-> Some(1)]

\* generator.py 129-131: no I-frame is pending
NoPrevIframe == [displayed_at |-> None, position |-> None, size |-> None]

\* m3u8.Segment(segment_uri, segment_base_uri): duration and byterange unset.
\* of_* remember the I-frame the segment was created for.
NewSegment(uri, row) ==
    [uri |-> uri, duration |-> None, byterange |-> None,
     of_displayed_at |-> row.a, of_position |-> row.b, of_size |-> row.c]

\* SetLast that writes to iframe_segments[0]
SetFirst(segs, field, value) ==
    [segs EXCEPT ![1] = [@ EXCEPT ![field] = value]]

\* iframe_segments[-1].<field> = value, on a list that is not empty
SetLast(segs, field, value) ==
    [segs EXCEPT ![Len(segs)] = [@ EXCEPT ![field] = value]]

\* iframe_segments[-1].<field> = value; on an empty list Python raises IndexError.
WriteLast(st, field, value) ==
    IF Len(st.iframe_segments) = 0
    THEN [st EXCEPT !.raised = "IndexError"]
    ELSE [st EXCEPT !.iframe_segments = SetLast(@, field, value)]

\* FrameByterange without "prev_iframe['position'] = None" (line 192)
FrameByterangeKeepsPosition(row, st) ==
    IF Truthy(st.prev_iframe.position)
    THEN LET prev_iframe_size == row.b - st.prev_iframe.position[1]
             w == WriteLast(st, "byterange",
                            <<prev_iframe_size, st.prev_iframe.position[1]>>)
         IN  [w EXCEPT !.iframes_total_size = @ + prev_iframe_size]
    ELSE st

\* generator.py 183-192: the byte range of the previous I-frame, from the
\* position of the frame that follows it.
FrameByterange(row, st) ==
    IF Truthy(st.prev_iframe.position)
    THEN LET prev_iframe_size == row.b - st.prev_iframe.position[1]
             w == WriteLast(st, "byterange",
                            <<prev_iframe_size, st.prev_iframe.position[1]>>)
         IN  [w EXCEPT !.iframes_total_size = @ + prev_iframe_size,
                       !.prev_iframe.position = None]
    ELSE st

\* FrameIframe without the test of the picture type (line 194)
FrameIframeAnyType(row, uri, st) ==
    LET w == IF Truthy(st.prev_iframe.displayed_at)
             THEN WriteLast(st, "duration",
                            Some(row.a - st.prev_iframe.displayed_at[1]))
             ELSE st
    IN  [w EXCEPT !.iframe_segments = Append(@, NewSegment(uri, row)),
                  !.prev_iframe = [displayed_at |-> Some(row.a),
                                   position |-> Some(row.b),
                                   size |-> Some(row.c)]]

\* generator.py 194-205: an 'I' frame closes the time span of the previous
\* I-frame and opens a new segment.
FrameIframe(row, uri, st) ==
    IF row.t = "I"
    THEN LET w == IF Truthy(st.prev_iframe.displayed_at)
                  THEN WriteLast(st, "duration",
                                 Some(row.a - st.prev_iframe.displayed_at[1]))
                  ELSE st
         IN  [w EXCEPT !.iframe_segments = Append(@, NewSegment(uri, row)),
                       !.prev_iframe = [displayed_at |-> Some(row.a),
                                        position |-> Some(row.b),
                                        size |-> Some(row.c)]]
    ELSE st

\* _process_video_frame(row, prev_iframe, segment_uri, segment_base_uri,
\*                      iframe_segments, iframes_total_size)
\* st carries prev_iframe, iframe_segments, iframes_total_size, video_duration
\* and the exception raised, if any.
ProcessVideoFrame(row, uri, st) ==
    LET s1 == FrameByterange(row, st)
    IN  IF s1.raised /= "none" THEN s1 ELSE FrameIframe(row, uri, s1)

\* generator.py 234-239: the last I-frame spans until the end of the video.
DetailsDuration(row, st) ==
    IF Truthy(st.prev_iframe.displayed_at)
    THEN WriteLast(st, "duration",
                   Some(row.a + row.b - st.prev_iframe.displayed_at[1]))
    ELSE st

\* generator.py 240-246: the last row was an I-frame: use ffprobe's pkt_size.
DetailsByterange(row, st) ==
    IF Truthy(st.prev_iframe.position)
    THEN LET w == WriteLast(st, "byterange",
                            <<st.prev_iframe.size[1], st.prev_iframe.position[1]>>)
         IN  [w EXCEPT !.iframes_total_size = @ + st.prev_iframe.size[1]]
    ELSE st

\* _process_video_details(row, prev_iframe, iframe_segments, iframes_total_size)
ProcessVideoDetails(row, st) ==
    LET s1 == DetailsDuration(row, st)
        s2 == IF s1.raised /= "none" THEN s1 ELSE DetailsByterange(row, s1)
    IN  IF s2.raised /= "none" THEN s2 ELSE [s2 EXCEPT !.video_duration = row.b]

\* ProcessRow that skips a row of an unknown type instead of raising
ProcessRowSkipsUnknown(row, uri, st) ==
    IF row.decider = "frame" THEN ProcessVideoFrame(row, uri, st)
    ELSE IF row.decider = "format" THEN ProcessVideoDetails(row, st)
    ELSE st

\* One iteration of the loop of create_iframe_segments (generator.py 133-145).
ProcessRow(row, uri, st) ==
    IF row.decider = "frame" THEN ProcessVideoFrame(row, uri, st)
    ELSE IF row.decider = "format" THEN ProcessVideoDetails(row, st)
    ELSE [st EXCEPT !.raised = "ValueError"]

FoldState ==
    [iframe_segments |-> iframe_segments, prev_iframe |-> prev_iframe,
     iframes_total_size |-> iframes_total_size, video_duration |-> video_duration,
     raised |-> "none"]

\* HasIframeData that tests the duration only
HasIframeDataDurationOnly(bytes, duration) == duration /= 0

\* generator.py 83: the test that decides between a playlist and (None, None).
HasIframeData(bytes, duration) == bytes /= 0 /\ duration /= 0

\* IframeBandwidth that truncates instead of rounding up
IframeBandwidthTruncated(bytes, duration) == (bytes * 8) \div duration

\* generator.py 84: int(ceil(total_bytes / total_duration * 8))
IframeBandwidth(bytes, duration) == CeilDiv(bytes * 8, duration)

\* ---- the state after construction ----
\* A master playlist may already carry the I-frame references of an earlier
\* run: here the reference of the first rendition, as a run writes it for an
\* I-frame of 1 byte in a video of duration 3.
StaleIframes == {<<>>, <<[uri |-> 1, bandwidth |-> 3]>>}

Init ==
    /\ pc = "start"
    /\ err = "none"
    /\ err_arg = None
    /\ n_playlists = 0
    /\ playlist = 0
    /\ master_iframes \in StaleIframes
    /\ stale = master_iframes
    /\ result_iframes = <<>>
    /\ master_content = None
    /\ n_segments = 0
    /\ segment = 0
    /\ iframe_playlist = <<>>
    /\ total_bytes = 0
    /\ total_duration = 0
    /\ ffprobe_status = 0
    /\ probe_rows = 0
    /\ rows_left = 0
    /\ iframe_segments = <<>>
    /\ prev_iframe = NoPrevIframe
    /\ iframes_total_size = 0
    /\ video_duration = 0
    /\ last_row = None
    /\ n_format = 0
    /\ seen_iframe = FALSE
    /\ n_records = 0
    /\ totals = <<>>
    /\ frame_order = NoFrameYet
    /\ codecs = None
    /\ iframe_codecs = None
    /\ refiltered_codecs = None

\* Raise whose exception the loop over the renditions catches: the rendition
\* is dropped and the result is returned without it
RaiseCaught(e, arg) ==
    /\ pc' = "playlists"
    /\ err' = e
    /\ err_arg' = arg

\* An exception raised inside update_for_iframes; no handler of generator.py
\* encloses lines 41-49, 73-98 or 133-147, so it ends the call.
Raise(e, arg) ==
    /\ pc' = "error"
    /\ err' = e
    /\ err_arg' = arg

\* UpdateForIframesLoad without "master_playlist.iframe_playlists[:] = []"
UpdateForIframesLoadKeepsRefs ==
    /\ pc = "start"
    /\ \E n \in 1..MaxPlaylists :
        /\ n_playlists' = n
        /\ playlist' = 1
        /\ master_iframes' = master_iframes
        /\ result_iframes' = <<>>
        /\ pc' = "playlists"
    /\ UNCHANGED <<stale, codec_vars, err, err_arg, master_content, totals,
                   rendition_vars, probe_vars, fold_vars, n_records>>

\* generator.py 26-39: load the master playlist, clear its I-frame references.
UpdateForIframesLoad ==
    /\ pc = "start"
    /\ \E n \in 1..MaxPlaylists :
        /\ n_playlists' = n
        /\ playlist' = 1
        /\ master_iframes' = <<>>
        /\ result_iframes' = <<>>
        /\ pc' = "playlists"
    /\ UNCHANGED <<stale, codec_vars, err, err_arg, master_content, totals, rendition_vars,
                   probe_vars, fold_vars, n_records>>

\* generator.py 26-32: m3u8.load raises IOError, or the playlist is not a variant.
UpdateForIframesLoadFails ==
    /\ pc = "start"
    /\ \E e \in {"PlaylistLoadError", "BadPlaylistError"} : Raise(e, None)
    /\ UNCHANGED <<stale, codec_vars, orchestrator_vars, rendition_vars, probe_vars, fold_vars, n_records>>

\* generator.py 56-71: ffprobe is installed and the rendition's playlist loads.
CreateIframePlaylistLoad ==
    /\ pc = "playlists"
    /\ playlist <= n_playlists
    /\ \E n \in 0..MaxSegments : n_segments' = n
    /\ segment' = 1
    /\ iframe_playlist' = <<>>
    /\ total_bytes' = 0
    /\ total_duration' = 0
    /\ pc' = "segments"
    /\ UNCHANGED <<stale, codec_vars, err, err_arg, orchestrator_vars, probe_vars, fold_vars, n_records>>

\* generator.py 56-71: ffprobe is missing, the stream url is invalid, or the
\* playlist has no absolute uri.
CreateIframePlaylistLoadFails ==
    /\ pc = "playlists"
    /\ playlist <= n_playlists
    /\ \E e \in {"DependencyError", "PlaylistLoadError", "BadPlaylistError"} :
        Raise(e, None)
    /\ UNCHANGED <<stale, codec_vars, orchestrator_vars, rendition_vars, probe_vars, fold_vars, n_records>>

\* extract_iframe_metadata (generator.py 261-299) as called at 119-132: the
\* pipeline prints n rows and ffprobe exits with some status; the rows are
\* handed over unless the status is 1.
ExtractIframeMetadataUpTo(max_rows) ==
    /\ pc = "segments"
    /\ segment <= n_segments
    /\ \E status \in ExitStatuses, n \in 0..max_rows :
        /\ ffprobe_status' = status
        /\ probe_rows' = n
        /\ IF status = 1
           THEN /\ Raise("DataError", None)
                /\ rows_left' = 0
           ELSE /\ pc' = "rows"
                /\ rows_left' = n
                /\ UNCHANGED <<err, err_arg>>
    /\ iframe_segments' = <<>>
    /\ prev_iframe' = NoPrevIframe
    /\ iframes_total_size' = 0
    /\ video_duration' = 0
    /\ last_row' = None
    /\ n_format' = 0
    /\ seen_iframe' = FALSE
    /\ frame_order' = NoFrameYet
    /\ UNCHANGED <<stale, codec_vars, orchestrator_vars, rendition_vars, n_records>>

\* One iteration of the loop at generator.py 133-145 on the given row.
ConsumeRow(row) ==
    LET st == ProcessRow(row, segment, FoldState)
    IN  /\ pc = "rows"
        /\ rows_left > 0
        /\ rows_left' = rows_left - 1
        /\ n_records' = n_records + 1
        /\ last_row' = Some(row)
        /\ n_format' = IF row.decider = "format" THEN n_format + 1 ELSE n_format
        /\ seen_iframe' = (seen_iframe \/ (row.decider = "frame" /\ row.t = "I"))
        /\ frame_order' = NextFrameOrder(frame_order, row)
        /\ iframe_segments' = st.iframe_segments
        /\ prev_iframe' = st.prev_iframe
        /\ iframes_total_size' = st.iframes_total_size
        /\ video_duration' = st.video_duration
        /\ IF st.raised = "none"
           THEN UNCHANGED <<pc, err, err_arg>>
           ELSE Raise(st.raised,
                      IF st.raised = "ValueError" THEN Some(row.decider) ELSE None)
        /\ UNCHANGED <<stale, codec_vars, orchestrator_vars, rendition_vars,
                       ffprobe_status, probe_rows>>

ExtractIframeMetadata == ExtractIframeMetadataUpTo(MaxRecords - n_records)
ProcessFrameRow == \E row \in SampleFrameRows : ConsumeRow(row)
ProcessFormatRow == \E row \in SampleFormatRows : ConsumeRow(row)
ProcessInvalidRow == \E row \in SampleInvalidRows : ConsumeRow(row)

\* generator.py 147 and 75-81: the rows are exhausted; the segment's I-frame
\* segments and totals are added to the rendition's.
CreateIframeSegmentsReturn ==
    /\ pc = "rows"
    /\ rows_left = 0
    /\ iframe_playlist' = iframe_playlist \o iframe_segments
    /\ total_bytes' = total_bytes + iframes_total_size
    /\ total_duration' = total_duration + video_duration
    /\ segment' = segment + 1
    /\ pc' = "segments"
    /\ iframe_segments' = <<>>
    /\ prev_iframe' = NoPrevIframe
    /\ iframes_total_size' = 0
    /\ video_duration' = 0
    /\ last_row' = None
    /\ n_format' = 0
    /\ seen_iframe' = FALSE
    /\ frame_order' = NoFrameYet
    /\ UNCHANGED <<stale, codec_vars, err, err_arg, orchestrator_vars, n_segments, probe_vars, n_records>>

\* generator.py 83-98 and 43-46: non-zero totals; the I-frame playlist is
\* attached to the master and appended to the result.
CreateIframePlaylistAdd ==
    /\ pc = "segments"
    /\ segment > n_segments
    /\ HasIframeData(total_bytes, total_duration)
    /\ master_iframes' = Append(master_iframes,
            [uri |-> playlist,
             bandwidth |-> IframeBandwidth(total_bytes, total_duration)])
    /\ result_iframes' = Append(result_iframes,
            [uri |-> playlist, content |-> iframe_playlist])
    /\ totals' = Append(totals, <<total_bytes, total_duration>>)
    /\ playlist' = playlist + 1
    /\ pc' = "playlists"
    /\ UNCHANGED <<stale, codec_vars, err, err_arg, n_playlists, master_content, rendition_vars,
                   probe_vars, fold_vars, n_records>>

\* generator.py 83-86 and 43-44: a zero total; (None, None) is returned and
\* the rendition is skipped.
CreateIframePlaylistSkip ==
    /\ pc = "segments"
    /\ segment > n_segments
    /\ ~HasIframeData(total_bytes, total_duration)
    /\ totals' = Append(totals, <<total_bytes, total_duration>>)
    /\ playlist' = playlist + 1
    /\ pc' = "playlists"
    /\ UNCHANGED <<stale, codec_vars, err, err_arg, n_playlists, master_iframes, result_iframes,
                   master_content, rendition_vars, probe_vars, fold_vars, n_records>>

\* generator.py 48-49: the master playlist is serialized and the result returned.
UpdateForIframesReturn ==
    /\ pc = "playlists"
    /\ playlist > n_playlists
    /\ master_content' = Some(master_iframes)
    /\ pc' = "done"
    /\ UNCHANGED <<stale, codec_vars, err, err_arg, n_playlists, playlist, master_iframes,
                   result_iframes, totals, rendition_vars, probe_vars, fold_vars,
                   n_records>>

Next ==
    \/ UpdateForIframesLoad
    \/ UpdateForIframesLoadFails
    \/ CreateIframePlaylistLoad
    \/ CreateIframePlaylistLoadFails
    \/ ExtractIframeMetadata
    \/ ProcessFrameRow
    \/ ProcessFormatRow
    \/ ProcessInvalidRow
    \/ CreateIframeSegmentsReturn
    \/ CreateIframePlaylistAdd
    \/ CreateIframePlaylistSkip
    \/ UpdateForIframesReturn

Spec == Init /\ [][Next]_vars

\* ---- one transport-stream segment, every row of the bounded domain ----
\* The state in which create_iframe_playlist reaches the only segment of the
\* only rendition.
InitSynth ==
    /\ pc = "segments"
    /\ err = "none"
    /\ err_arg = None
    /\ n_playlists = 1
    /\ playlist = 1
    /\ master_iframes = <<>>
    /\ stale = <<>>
    /\ result_iframes = <<>>
    /\ master_content = None
    /\ n_segments = 1
    /\ segment = 1
    /\ iframe_playlist = <<>>
    /\ total_bytes = 0
    /\ total_duration = 0
    /\ ffprobe_status = 0
    /\ probe_rows = 0
    /\ rows_left = 0
    /\ iframe_segments = <<>>
    /\ prev_iframe = NoPrevIframe
    /\ iframes_total_size = 0
    /\ video_duration = 0
    /\ last_row = None
    /\ n_format = 0
    /\ seen_iframe = FALSE
    /\ n_records = 0
    /\ totals = <<>>
    /\ frame_order = NoFrameYet
    /\ codecs = None
    /\ iframe_codecs = None
    /\ refiltered_codecs = None

SynthExtractIframeMetadata == ExtractIframeMetadataUpTo(MaxRows)
SynthFrameRow == \E row \in FrameRows : ConsumeRow(row)
SynthFormatRow == \E row \in FormatRows : ConsumeRow(row)
SynthInvalidRow == \E row \in InvalidRows : ConsumeRow(row)

NextSynth ==
    \/ SynthExtractIframeMetadata
    \/ SynthFrameRow
    \/ SynthFormatRow
    \/ SynthInvalidRow
    \/ CreateIframeSegmentsReturn

SpecSynth == InitSynth /\ [][NextSynth]_vars

\* ---- one transport-stream segment of SegmentBytes bytes ----
\* Frames of one byte at byte 1 or at byte FarPos of the file, in any order,
\* and the format row; every frame lies inside the file.
SegmentBytes == FarPos + 1
ByteFrameRows == {Frame(1, p, 1, t) : p \in {1, FarPos}, t \in {"I", "P"}}
ByteFormatRows == {Format(0, 1)}
InitBytes == InitSynth
BytesExtractIframeMetadata == ExtractIframeMetadataUpTo(MaxByteRows)
BytesFrameRow == \E row \in ByteFrameRows : ConsumeRow(row)
BytesFormatRow == \E row \in ByteFormatRows : ConsumeRow(row)

NextBytes ==
    \/ BytesExtractIframeMetadata
    \/ BytesFrameRow
    \/ BytesFormatRow
    \/ CreateIframeSegmentsReturn

SpecBytes == InitBytes /\ [][NextBytes]_vars

\* ---- one rendition at the end of its segment loop, any totals ----
\* The state in which the loop at generator.py 73-81 ends after one segment
\* whose rows were an I-frame of pkt_size b at the start time of the video and
\* a format row of duration du.
InitBandwidth ==
    \E b \in 0..MaxBytes, du \in 0..MaxDuration :
        LET st == ProcessRow(Format(1, du), 1,
                      ProcessRow(Frame(1, 1, b, "I"), 1,
                          [iframe_segments |-> <<>>, prev_iframe |-> NoPrevIframe,
                           iframes_total_size |-> 0, video_duration |-> 0,
                           raised |-> "none"]))
        IN  /\ pc = "segments"
            /\ err = "none"
            /\ err_arg = None
            /\ n_playlists = 1
            /\ playlist = 1
            /\ master_iframes = <<>>
            /\ result_iframes = <<>>
            /\ master_content = None
            /\ n_segments = 1
            /\ segment = 2
            /\ iframe_playlist = st.iframe_segments
            /\ total_bytes = st.iframes_total_size
            /\ total_duration = st.video_duration
            /\ ffprobe_status = 0
            /\ probe_rows = 2
            /\ rows_left = 0
            /\ iframe_segments = <<>>
            /\ prev_iframe = NoPrevIframe
            /\ iframes_total_size = 0
            /\ video_duration = 0
            /\ last_row = None
            /\ n_format = 0
            /\ seen_iframe = FALSE
            /\ n_records = 2
            /\ totals = <<>>
            /\ stale = <<>>
            /\ frame_order = NoFrameYet
            /\ codecs = None
            /\ iframe_codecs = None
            /\ refiltered_codecs = None

NextBandwidth ==
    \/ CreateIframePlaylistAdd
    \/ CreateIframePlaylistSkip
    \/ UpdateForIframesReturn

SpecBandwidth == InitBandwidth /\ [][NextBandwidth]_vars

\* ---- helpers of the properties ----
IsRow(o, decider) == o /= None /\ o[1].decider = decider
IsIframeRow(o) == IsRow(o, "frame") /\ o[1].t = "I"
\* create_iframe_segments has consumed all rows and is about to return.
Returning == pc = "rows" /\ rows_left = 0
\* a step that consumes one row and stays in the loop
RowStep == pc = "rows" /\ pc' = "rows" /\ n_records' = n_records + 1

RECURSIVE SumLengths(_)
SumLengths(segs) ==
    IF segs = <<>> THEN 0
    ELSE (IF Head(segs).byterange = None THEN 0 ELSE Head(segs).byterange[1])
         + SumLengths(Tail(segs))

\* C1: every segment that is followed by a later segment of the same
\* transport-stream segment has duration = displayed_at of the next I-frame
\* minus displayed_at of its own I-frame, for every value of displayed_at.
C1_DurationFromNextIframe ==
    pc = "rows" =>
        \A i \in 1..(Len(iframe_segments) - 1) :
            iframe_segments[i].duration =
                Some(iframe_segments[i + 1].of_displayed_at
                     - iframe_segments[i].of_displayed_at)

\* C2: right after a format row, if the sequence holds an I-frame, the last
\* segment has duration = start_time + duration - displayed_at of its I-frame.
C2_LastDurationFromFormat ==
    (pc = "rows" /\ IsRow(last_row, "format") /\ seen_iframe) =>
        /\ Len(iframe_segments) > 0
        /\ iframe_segments[Len(iframe_segments)].duration =
               Some(last_row[1].a + last_row[1].b
                    - iframe_segments[Len(iframe_segments)].of_displayed_at)

\* C3: when a frame row directly follows an I-frame row, the I-frame's segment
\* gets the byte range (position of the following frame - position of the
\* I-frame) @ (position of the I-frame).
C3_ByterangeFromNextFrame ==
    [][(RowStep /\ IsIframeRow(last_row) /\ IsRow(last_row', "frame")) =>
          /\ Len(iframe_segments) > 0
          /\ iframe_segments'[Len(iframe_segments)].byterange =
                 <<last_row'[1].b - last_row[1].b, last_row[1].b>>]_vars

\* C4: on the first format row, a last I-frame that no frame followed gets the
\* byte range pkt_size @ pkt_pos; a byte range that a following frame has set
\* is left as it is, and so is the byte total.
C4_ByterangeFromFormat ==
    [][(RowStep /\ IsRow(last_row', "format") /\ n_format = 0
        /\ Len(iframe_segments) > 0) =>
          LET n == Len(iframe_segments)
              old == iframe_segments[n]
              new == iframe_segments'[n]
          IN  /\ (IsIframeRow(last_row) /\ old.byterange = None) =>
                    new.byterange = <<old.of_size, old.of_position>>
              /\ old.byterange /= None =>
                    /\ new.byterange = old.byterange
                    /\ iframes_total_size' = iframes_total_size]_vars

\* C5: when the rows end with their only format row, the returned
\* video_duration is the duration of that row and the returned byte total is
\* the sum of the byte range lengths of the returned segments.
C5_Totals ==
    (Returning /\ n_format = 1 /\ IsRow(last_row, "format")) =>
        /\ video_duration = last_row[1].b
        /\ iframes_total_size = SumLengths(iframe_segments)

C5_Witness ==
    /\ Returning /\ n_format = 1 /\ IsRow(last_row, "format")
    /\ Len(iframe_segments) = 2
    /\ iframe_segments[1].byterange /= None
    /\ iframe_segments[2].byterange /= None
    /\ iframes_total_size > 0
    /\ video_duration > 0

\* C6 as stated: without an I-frame row the result is an empty segment list
\* and zero totals, and no exception is raised on the way.
C6_ZeroTotals ==
    /\ (Returning /\ ~seen_iframe) =>
          /\ iframe_segments = <<>>
          /\ iframes_total_size = 0
          /\ video_duration = 0
    /\ ~seen_iframe => err /= "IndexError"

\* C6 amended: without an I-frame row the result is an empty segment list and
\* a zero byte total, and no exception is raised on the way; video_duration is
\* 0 when there was no format row and the duration of the format row when the
\* rows end with it.
C6_EmptyWithoutIframe ==
    /\ (Returning /\ ~seen_iframe) =>
          /\ iframe_segments = <<>>
          /\ iframes_total_size = 0
          /\ n_format = 0 => video_duration = 0
          /\ IsRow(last_row, "format") => video_duration = last_row[1].b
    /\ ~seen_iframe => err /= "IndexError"

C6_Witness ==
    /\ Returning /\ ~seen_iframe
    /\ probe_rows >= 2
    /\ IsRow(last_row, "format")
    /\ video_duration /= 0

\* C7: a probe that printed no rows ends in DataError.
C7_NoRowsIsDataError ==
    (pc \in {"rows", "error"} /\ probe_rows = 0) =>
        (pc = "error" /\ err = "DataError")

\* C8: a row whose type is neither "frame" nor "format" ends the call with a
\* ValueError that names the type, and nothing of the transport-stream segment
\* reaches the rendition.
C8_InvalidRowFails ==
    (last_row /= None /\ last_row[1].decider \notin {"frame", "format"}) =>
        /\ pc = "error"
        /\ err = "ValueError"
        /\ err_arg = Some(last_row[1].decider)
        /\ iframe_playlist = <<>>
        /\ total_bytes = 0
        /\ total_duration = 0

C8_Witness ==
    /\ last_row /= None /\ last_row[1].decider = "stream"
    /\ pc = "error"
    /\ probe_rows = 3 /\ rows_left = 0
    /\ Len(iframe_segments) >= 1
    /\ n_format = 1

\* C9: after a successful call the I-frame references of the master and the
\* playlists of the result are the renditions whose two totals are non-zero,
\* once each, in the order of the master.
Included(i) == totals[i][1] /= 0 /\ totals[i][2] /= 0
UrisOf(refs) == [i \in 1..Len(refs) |-> refs[i].uri]
C9_ExactlyNonZeroRenditions ==
    pc = "done" =>
        /\ Len(totals) = n_playlists
        /\ UrisOf(master_iframes) = SelectSeq([i \in 1..n_playlists |-> i], Included)
        /\ UrisOf(result_iframes) = SelectSeq([i \in 1..n_playlists |-> i], Included)
        /\ master_content = Some(master_iframes)

\* the first rendition has zero totals and is skipped, the second is included
C9_Witness ==
    /\ pc = "done"
    /\ n_playlists = 2
    /\ ~Included(1)
    /\ UrisOf(master_iframes) = <<2>>
    /\ UrisOf(result_iframes) = <<2>>

HardErrors == {"PlaylistLoadError", "BadPlaylistError", "DependencyError",
               "DataError", "ValueError"}
C11_ErrorAbortsUpdate ==
    [][/\ err = "none"
       /\ err' /= "none" =>
            /\ err' \in HardErrors
            /\ pc' = "error"
            /\ master_content' = None
            /\ playlist' = playlist
            /\ Len(totals') = Len(totals)
       /\ pc' = "done" => err' = "none"]_vars

\* the first rendition was added, the second one fails in the probe
C11_Witness ==
    /\ pc = "error"
    /\ err = "DataError"
    /\ playlist = 2
    /\ n_playlists = 2
    /\ Len(result_iframes) = 1
    /\ master_content = None

\* C12: from the load on, the I-frame references of the master are those of
\* the renditions finished in this call and nothing else, so the content
\* returned depends on the renditions and their probe output only, not on the
\* references the master carried before.
ExpectedRefs ==
    LET inc == SelectSeq([i \in 1..Len(totals) |-> i], Included)
    IN  [k \in 1..Len(inc) |->
            [uri |-> inc[k],
             bandwidth |-> CeilDiv(totals[inc[k]][1] * 8, totals[inc[k]][2])]]
C12_StaleReferencesCleared ==
    /\ pc \in {"playlists", "segments", "rows", "done"} =>
          master_iframes = ExpectedRefs
    /\ pc = "done" => master_content = Some(ExpectedRefs)

\* the master carried the reference of an earlier run, and the call returns
\* that same content again
C12_Witness ==
    /\ pc = "done"
    /\ stale /= <<>>
    /\ master_content = Some(stale)

\* ---- convert_codecs_for_iframes (generator.py 302-310) ----
\* A string is the sequence of its characters.
Avc1 == <<"a", "v", "c", "1">>
Whitespace == {" "}
\* the codecs strings tried: up to MaxPieces of these pieces, one after another
CodecPieces == {Avc1, <<"a", "v">>, <<"c", "1">>, <<"m">>, <<",">>, <<" ">>}
RECURSIVE Concats(_)
Concats(n) ==
    IF n = 0 THEN {<<>>}
    ELSE LET shorter == Concats(n - 1)
         IN  shorter \cup {s \o p : s \in shorter, p \in CodecPieces}
CodecStrings == Concats(MaxPieces)

\* str.split(sep) for a separator of one character
RECURSIVE Split(_, _)
Split(s, sep) ==
    IF \E i \in 1..Len(s) : s[i] = sep
    THEN LET i == CHOOSE k \in 1..Len(s) :
                      s[k] = sep /\ \A j \in 1..(k - 1) : s[j] /= sep
         IN  <<SubSeq(s, 1, i - 1)>> \o Split(SubSeq(s, i + 1, Len(s)), sep)
    ELSE <<s>>
\* str.strip()
RECURSIVE Strip(_)
Strip(s) ==
    IF s /= <<>> /\ Head(s) \in Whitespace THEN Strip(Tail(s))
    ELSE IF s /= <<>> /\ s[Len(s)] \in Whitespace
         THEN Strip(SubSeq(s, 1, Len(s) - 1))
         ELSE s
\* needle in s
Contains(s, needle) ==
    \E i \in 1..(Len(s) - Len(needle) + 1) :
        SubSeq(s, i, i + Len(needle) - 1) = needle
\* sep.join(list)
RECURSIVE Join(_, _)
Join(sep, list) ==
    IF list = <<>> THEN <<>>
    ELSE IF Len(list) = 1 THEN list[1]
         ELSE list[1] \o sep \o Join(sep, Tail(list))
\* [f(k) for k in list if 'avc1' in k]
RECURSIVE Avc1Entries(_)
Avc1Entries(list) ==
    IF list = <<>> THEN <<>>
    ELSE (IF Contains(Head(list), Avc1) THEN <<Head(list)>> ELSE <<>>)
         \o Avc1Entries(Tail(list))
StripAll(list) == [i \in 1..Len(list) |-> Strip(list[i])]

\* convert_codecs_for_iframes without k.strip()
ConvertCodecsUnstripped(c) ==
    IF c /= None
    THEN Some(Join(<<",", " ">>, Avc1Entries(Split(c[1], ","))))
    ELSE None

\* generator.py 302-310
convert_codecs_for_iframes(c) ==
    IF c /= None
    THEN Some(Join(<<",", " ">>, StripAll(Avc1Entries(Split(c[1], ",")))))
    ELSE None

\* create_iframe_playlist at line 88, with any codecs attribute of the stream
InitCodecs ==
    /\ pc = "codecs"
    /\ err = "none"
    /\ err_arg = None
    /\ n_playlists = 1
    /\ playlist = 1
    /\ master_iframes = <<>>
    /\ stale = <<>>
    /\ result_iframes = <<>>
    /\ master_content = None
    /\ n_segments = 1
    /\ segment = 1
    /\ iframe_playlist = <<>>
    /\ total_bytes = 0
    /\ total_duration = 0
    /\ ffprobe_status = 0
    /\ probe_rows = 0
    /\ rows_left = 0
    /\ iframe_segments = <<>>
    /\ prev_iframe = NoPrevIframe
    /\ iframes_total_size = 0
    /\ video_duration = 0
    /\ last_row = None
    /\ n_format = 0
    /\ seen_iframe = FALSE
    /\ n_records = 0
    /\ totals = <<>>
    /\ frame_order = NoFrameYet
    /\ codecs \in {None} \cup {Some(c) : c \in CodecStrings}
    /\ iframe_codecs = None
    /\ refiltered_codecs = None

\* generator.py 88: iframe_codecs = convert_codecs_for_iframes(codecs)
ConvertCodecs ==
    /\ pc = "codecs"
    /\ iframe_codecs' = convert_codecs_for_iframes(codecs)
    /\ pc' = "converted"
    /\ UNCHANGED <<stale, codecs, refiltered_codecs, err, err_arg, n_records,
                   orchestrator_vars, rendition_vars, probe_vars, fold_vars>>

\* convert_codecs_for_iframes applied to the codecs of an I-frame playlist
ConvertCodecsAgain ==
    /\ pc = "converted"
    /\ refiltered_codecs' = convert_codecs_for_iframes(iframe_codecs)
    /\ pc' = "refiltered"
    /\ UNCHANGED <<stale, codecs, iframe_codecs, err, err_arg, n_records,
                   orchestrator_vars, rendition_vars, probe_vars, fold_vars>>

NextCodecs == ConvertCodecs \/ ConvertCodecsAgain
SpecCodecs == InitCodecs /\ [][NextCodecs]_vars

\* C13: converting a converted codecs string changes nothing; the conversion
\* keeps exactly the comma-separated entries that contain "avc1", in order,
\* trimmed and joined with ", "; an absent codecs string converts to absent and
\* a present one to a string, possibly empty.
C13_ConvertIsIdempotent ==
    /\ pc \in {"converted", "refiltered"} =>
          /\ (iframe_codecs = None) <=> (codecs = None)
          /\ codecs /= None =>
               LET entries == Split(codecs[1], ",")
                   HasAvc1(i) == Contains(entries[i], Avc1)
                   kept == SelectSeq([i \in 1..Len(entries) |-> i], HasAvc1)
                   out == Split(iframe_codecs[1], ",")
               IN  IF kept = <<>>
                   THEN iframe_codecs[1] = <<>>
                   ELSE /\ Len(out) = Len(kept)
                        /\ \A k \in 1..Len(kept) :
                              out[k] = (IF k = 1 THEN <<>> ELSE <<" ">>)
                                       \o Strip(entries[kept[k]])
    /\ pc = "refiltered" => refiltered_codecs = iframe_codecs

\* " avc1,m" was converted to "avc1" and converted again
C13_Witness ==
    /\ pc = "refiltered"
    /\ codecs = Some(<<" ">> \o Avc1 \o <<",", "m">>)
    /\ iframe_codecs = Some(Avc1)
    /\ refiltered_codecs = Some(Avc1)

\* C14: a row consumed after a format row changes neither the segment list
\* nor the byte total nor the video duration that create_iframe_segments
\* returns.
C14_RowsAfterFormatIgnored ==
    [][(RowStep /\ n_format >= 1) =>
          /\ iframe_segments' = iframe_segments
          /\ iframes_total_size' = iframes_total_size
          /\ video_duration' = video_duration]_vars

\* C15: a row never writes to an empty segment list, removes no segment, and
\* leaves every segment but the last one of the list as it was.
C15_WritesOnlyLastSegment ==
    [][(pc = "rows" /\ n_records' = n_records + 1) =>
          /\ err' /= "IndexError"
          /\ Len(iframe_segments') >= Len(iframe_segments)
          /\ \A i \in 1..(Len(iframe_segments) - 1) :
                iframe_segments'[i] = iframe_segments[i]]_vars

\* the format row has written the duration and the byte range of the second
\* segment, after the second I-frame wrote those of the first
C15_Witness ==
    /\ pc = "rows"
    /\ IsRow(last_row, "format")
    /\ Len(iframe_segments) = 2
    /\ iframe_segments[1].duration /= None
    /\ iframe_segments[1].byterange /= None
    /\ iframe_segments[2].duration /= None
    /\ iframe_segments[2].byterange /= None

\* C16: when every frame lies inside the bytes of the transport-stream
\* segment, the byte range lengths of the segments returned sum to at most the
\* size of the transport-stream segment.
C16_LengthsWithinSegment ==
    Returning => SumLengths(iframe_segments) <= SegmentBytes

\* The bound of C16 does hold for the rows whose frames come in the order of
\* their byte positions (pkt_pos never decreases from one frame row to the
\* next); the code takes that order for granted.
LengthsWithinOrderedSegment ==
    (Returning /\ frame_order.ordered) =>
        SumLengths(iframe_segments) <= SegmentBytes

\* C17: the rows of a transport-stream segment are folded from the empty
\* state (no segment, no pending I-frame, zero totals), the fold touches
\* nothing of the rendition and makes segments of its own transport-stream
\* segment only, and its results are appended and added to the rendition's in
\* the order of the transport-stream segments.
C17_SegmentsSelfContained ==
    [][/\ (pc = "segments" /\ pc' = "rows") =>
             /\ iframe_segments' = <<>>
             /\ prev_iframe' = [displayed_at |-> None, position |-> None,
                                size |-> None]
             /\ iframes_total_size' = 0
             /\ video_duration' = 0
             /\ rendition_vars' = rendition_vars
       /\ (pc = "rows" /\ n_records' = n_records + 1) =>
             /\ rendition_vars' = rendition_vars
             /\ err' /= "IndexError"
             /\ \A i \in 1..Len(iframe_segments') :
                   iframe_segments'[i].uri = segment
       /\ (pc = "rows" /\ pc' = "segments") =>
             /\ iframe_playlist' = iframe_playlist \o iframe_segments
             /\ total_bytes' = total_bytes + iframes_total_size
             /\ total_duration' = total_duration + video_duration
             /\ segment' = segment + 1]_vars

\* the rows of the first transport-stream segment ended with a pending
\* I-frame; the rows of the second one did not complete its segment
C17_Witness ==
    /\ pc = "segments"
    /\ segment = 3
    /\ UrisOf(iframe_playlist) = <<1, 2>>
    /\ iframe_playlist[1].byterange = None
    /\ iframe_playlist[1].duration = None
    /\ iframe_playlist[2].byterange = <<2, 4>>
    /\ total_bytes = 2
    /\ total_duration = 3

\* C18: when the rows are frame rows followed by exactly one format row, every
\* segment returned has a duration and a byte range.
C18_ReturnedSegmentsComplete ==
    (Returning /\ n_format = 1 /\ IsRow(last_row, "format")) =>
        \A i \in 1..Len(iframe_segments) :
            /\ iframe_segments[i].duration /= None
            /\ iframe_segments[i].byterange /= None

====
